---- MODULE Spec2Model ----
(***************************************************************************)
(* A model of the wrequest crate (src/src/lib.rs): the case-insensitive    *)
(* HeaderMap, the case-sensitive KeyValueMap, the HttpMessage base with    *)
(* its body and JSON codec, and the Request and Response aggregates.       *)
(*                                                                         *)
(* Strings that the code compares character by character (map keys, JSON   *)
(* text) are sequences; header and parameter values, which the code only   *)
(* stores and returns, are TLA+ strings.                                   *)
(***************************************************************************)
EXTENDS Integers, Sequences, FiniteSets, TLC

VARIABLES
    hm,        \* a HeaderMap value (lib.rs:152)
    hm_src,    \* how hm was constructed: new(), or a From conversion and its input
    hlog,      \* the insert calls made on hm since its construction
    kv,        \* a KeyValueMap value (lib.rs:238)
    klog,      \* the insert calls made on kv since its construction
    msg,       \* an HttpMessage value (lib.rs:288)
    expect,    \* what json() is to return for the body of msg, by its origin
    request,   \* a Request value (lib.rs:392)
    ctor,      \* the arguments request was constructed with
    response,  \* a Response value (lib.rs:656)
    rlog,      \* the calls made on response since its construction
    op,        \* the most recent call: its name and arguments (and, for a
               \* set_body on msg, the body it found)
    ret,       \* the value returned by the most recent call
    steps      \* number of insert calls made so far

mapVars == <<hm, hm_src, hlog, kv, klog>>
msgVars == <<msg, expect>>
reqVars == <<request, ctor>>
respVars == <<response, rlog>>
vars == <<hm, hm_src, hlog, kv, klog, msg, expect, request, ctor, response, rlog,
          op, ret, steps>>

(***************************************************************************)
(* Bounds of the model.                                                    *)
(***************************************************************************)
\* The number of insert calls made on the maps, directly or by a conversion.
MaxOps == 3
\* The number of calls made on the HttpMessage.
MaxMsgOps == 3
\* The number of calls made on the Request after its construction.
MaxReqOps == 2
\* The number of calls made on the Response after its construction.
MaxRespOps == 3

(***************************************************************************)
(* Option<T>                                                               *)
(***************************************************************************)
None == [some |-> FALSE]
Some(x) == [some |-> TRUE, val |-> x]
IsSome(o) == o.some

(***************************************************************************)
(* Case folding of ASCII strings, as UniCase<String> compares header keys. *)
(***************************************************************************)
UpperCase == <<"A","B","C","D","E","F","G","H","I","J","K","L","M",
               "N","O","P","Q","R","S","T","U","V","W","X","Y","Z">>
LowerCase == <<"a","b","c","d","e","f","g","h","i","j","k","l","m",
               "n","o","p","q","r","s","t","u","v","w","x","y","z">>

LowerOf == [c \in {UpperCase[i] : i \in 1..26} |->
                LowerCase[CHOOSE i \in 1..26 : UpperCase[i] = c]]
UpperOf == [c \in {LowerCase[i] : i \in 1..26} |->
                UpperCase[CHOOSE i \in 1..26 : LowerCase[i] = c]]

ToLower(c) == IF c \in DOMAIN LowerOf THEN LowerOf[c] ELSE c

ToUpper(c) == IF c \in DOMAIN UpperOf THEN UpperOf[c] ELSE c

Fold(s) == [i \in 1..Len(s) |-> ToLower(s[i])]

\* UniCase<String> equality: equal contents under case folding.
UniCaseEq(a, b) == Fold(a) = Fold(b)

(***************************************************************************)
(* The hash maps, as sets of entries [key, value] holding at most one      *)
(* entry per key identity.  std HashMap::insert on an occupied identity    *)
(* replaces the value and keeps the key object already stored; it returns  *)
(* the old value.                                                          *)
(***************************************************************************)
\* CaseInsensitiveHashMap<String>: keys are UniCase<String>.
CISlot(entries, k) == {e \in entries : UniCaseEq(e.key, k)}

CIHashMapInsert(entries, k, v) ==
    LET old == CISlot(entries, k) IN
    IF old = {}
    THEN [map |-> entries \cup {[key |-> k, value |-> v]}, old |-> None]
    ELSE LET e == CHOOSE x \in old : TRUE IN
         [map |-> (entries \ old) \cup {[key |-> e.key, value |-> v]},
          old |-> Some(e.value)]

CIHashMapGet(entries, k) ==
    LET hit == CISlot(entries, k) IN
    IF hit = {} THEN None ELSE Some((CHOOSE x \in hit : TRUE).value)

\* HashMap<String, String>: keys are compared as they are.
Slot(entries, k) == {e \in entries : e.key = k}

HashMapInsert(entries, k, v) ==
    LET old == Slot(entries, k) IN
    IF old = {}
    THEN [map |-> entries \cup {[key |-> k, value |-> v]}, old |-> None]
    ELSE LET e == CHOOSE x \in old : TRUE IN
         [map |-> (entries \ old) \cup {[key |-> e.key, value |-> v]},
          old |-> Some(e.value)]

HashMapGet(entries, k) ==
    LET hit == Slot(entries, k) IN
    IF hit = {} THEN None ELSE Some((CHOOSE x \in hit : TRUE).value)

\* Every order in which a hash-map iterator may yield the entries, each once.
HashMapIter(entries) ==
    {s \in [1..Cardinality(entries) -> {<<e.key, e.value>> : e \in entries}] :
        \A i, j \in 1..Cardinality(entries) : i # j => s[i] # s[j]}

(***************************************************************************)
(* HeaderMap                                                               *)
(***************************************************************************)
HeaderMap_new == [map |-> {}]

\* HeaderMap::insert storing the key of the call over the stored one.
HeaderMap_insert_rekey(self, key, value) ==
    LET old == CISlot(self.map, key) IN
    [self |-> [map |-> (self.map \ old) \cup {[key |-> key, value |-> value]}],
     ret |-> old # {}]

\* insert comparing keys exactly, as a plain HashMap<String, String> does.
HeaderMap_insert_exact(self, key, value) ==
    LET r == HashMapInsert(self.map, key, value) IN
    [self |-> [map |-> r.map], ret |-> IsSome(r.old)]

HeaderMap_insert(self, key, value) ==
    LET r == CIHashMapInsert(self.map, key, value) IN
    [self |-> [map |-> r.map], ret |-> IsSome(r.old)]

HeaderMap_contains_key(self, key) == CISlot(self.map, key) # {}

\* HeaderMap::get looking the key up as spelled.
HeaderMap_get_exact(self, key) == HashMapGet(self.map, key)

HeaderMap_get(self, key) == CIHashMapGet(self.map, key)

HeaderMap_iter(self) == HashMapIter(self.map)

\* impl From<Vec<(String, String)>>: pops the pairs off the end of the vector.
RECURSIVE FromOwnedLoop(_, _)
FromOwnedLoop(owned, result) ==
    IF owned = <<>>
    THEN result
    ELSE LET kvp == owned[Len(owned)] IN
         FromOwnedLoop(SubSeq(owned, 1, Len(owned) - 1),
                       HeaderMap_insert(result, kvp[1], kvp[2]).self)

HeaderMap_from_owned(value) == FromOwnedLoop(value, HeaderMap_new)

\* impl From<&Vec<(&str, &str)>>: iterates the pairs front to back.
RECURSIVE FromRefLoop(_, _, _)
FromRefLoop(value, i, result) ==
    IF i > Len(value)
    THEN result
    ELSE FromRefLoop(value, i + 1,
                     HeaderMap_insert(result, value[i][1], value[i][2]).self)

HeaderMap_from_ref(value) == FromRefLoop(value, 1, HeaderMap_new)

(***************************************************************************)
(* KeyValueMap                                                             *)
(***************************************************************************)
KeyValueMap_new == [map |-> {}]

\* KeyValueMap::insert reporting is_none() of the old value.
KeyValueMap_insert_negated(self, key, value) ==
    LET r == HashMapInsert(self.map, key, value) IN
    [self |-> [map |-> r.map], ret |-> ~IsSome(r.old)]

KeyValueMap_insert(self, key, value) ==
    LET r == HashMapInsert(self.map, key, value) IN
    [self |-> [map |-> r.map], ret |-> IsSome(r.old)]

\* KeyValueMap::get looking the key up without regard to case.
KeyValueMap_get_nocase(self, key) == CIHashMapGet(self.map, key)

KeyValueMap_get(self, key) == HashMapGet(self.map, key)

KeyValueMap_contains_key(self, key) == Slot(self.map, key) # {}

KeyValueMap_iter(self) == HashMapIter(self.map)

(***************************************************************************)
(* Text and bytes.  A String is a sequence of Unicode code points; a       *)
(* Vec<u8> is a sequence of bytes.  Lit turns a literal, written as a      *)
(* sequence of one-character strings, into code points (the quotation      *)
(* mark is code point 34 and the backslash is 92).                         *)
(***************************************************************************)
Ascii ==
    (" " :> 32) @@ ("!" :> 33) @@ ("#" :> 35) @@ ("$" :> 36) @@ ("%" :> 37) @@
    ("&" :> 38) @@ ("'" :> 39) @@ ("(" :> 40) @@ (")" :> 41) @@ ("*" :> 42) @@ ("+" :> 43) @@
    ("," :> 44) @@ ("-" :> 45) @@ ("." :> 46) @@ ("/" :> 47) @@ ("0" :> 48) @@ ("1" :> 49) @@
    ("2" :> 50) @@ ("3" :> 51) @@ ("4" :> 52) @@ ("5" :> 53) @@ ("6" :> 54) @@ ("7" :> 55) @@
    ("8" :> 56) @@ ("9" :> 57) @@ (":" :> 58) @@ (";" :> 59) @@ ("<" :> 60) @@ ("=" :> 61) @@
    (">" :> 62) @@ ("?" :> 63) @@ ("@" :> 64) @@ ("A" :> 65) @@ ("B" :> 66) @@ ("C" :> 67) @@
    ("D" :> 68) @@ ("E" :> 69) @@ ("F" :> 70) @@ ("G" :> 71) @@ ("H" :> 72) @@ ("I" :> 73) @@
    ("J" :> 74) @@ ("K" :> 75) @@ ("L" :> 76) @@ ("M" :> 77) @@ ("N" :> 78) @@ ("O" :> 79) @@
    ("P" :> 80) @@ ("Q" :> 81) @@ ("R" :> 82) @@ ("S" :> 83) @@ ("T" :> 84) @@ ("U" :> 85) @@
    ("V" :> 86) @@ ("W" :> 87) @@ ("X" :> 88) @@ ("Y" :> 89) @@ ("Z" :> 90) @@ ("[" :> 91) @@
    ("]" :> 93) @@ ("^" :> 94) @@ ("_" :> 95) @@ ("a" :> 97) @@
    ("b" :> 98) @@ ("c" :> 99) @@ ("d" :> 100) @@ ("e" :> 101) @@ ("f" :> 102) @@ ("g" :> 103) @@
    ("h" :> 104) @@ ("i" :> 105) @@ ("j" :> 106) @@ ("k" :> 107) @@ ("l" :> 108) @@ ("m" :> 109) @@
    ("n" :> 110) @@ ("o" :> 111) @@ ("p" :> 112) @@ ("q" :> 113) @@ ("r" :> 114) @@ ("s" :> 115) @@
    ("t" :> 116) @@ ("u" :> 117) @@ ("v" :> 118) @@ ("w" :> 119) @@ ("x" :> 120) @@ ("y" :> 121) @@
    ("z" :> 122) @@ ("{" :> 123) @@ ("|" :> 124) @@ ("}" :> 125) @@ ("~" :> 126)

Lit(s) == [i \in 1..Len(s) |-> Ascii[s[i]]]

\* String::into_bytes: the UTF-8 encoding of one code point, and of a text.
Utf8EncodeChar(cp) ==
    IF cp < 128 THEN <<cp>>
    ELSE IF cp < 2048 THEN <<192 + (cp \div 64), 128 + (cp % 64)>>
    ELSE IF cp < 65536
         THEN <<224 + (cp \div 4096), 128 + ((cp \div 64) % 64), 128 + (cp % 64)>>
         ELSE <<240 + (cp \div 262144), 128 + ((cp \div 4096) % 64),
                128 + ((cp \div 64) % 64), 128 + (cp % 64)>>

RECURSIVE into_bytes(_)
into_bytes(text) ==
    IF text = <<>> THEN <<>>
    ELSE Utf8EncodeChar(Head(text)) \o into_bytes(Tail(text))

\* std::str::from_utf8: the code points of a well-formed UTF-8 byte
\* sequence, or an error.
IsCont(b, i, lo, hi) == i <= Len(b) /\ b[i] >= lo /\ b[i] <= hi

RECURSIVE Utf8Decode(_, _, _)
Utf8Decode(b, i, acc) ==
    IF i > Len(b) THEN [ok |-> TRUE, text |-> acc]
    ELSE LET c == b[i] IN
         IF c < 128
         THEN Utf8Decode(b, i + 1, Append(acc, c))
         ELSE IF c >= 194 /\ c <= 223
         THEN IF IsCont(b, i + 1, 128, 191)
              THEN Utf8Decode(b, i + 2, Append(acc, (c - 192) * 64 + (b[i + 1] - 128)))
              ELSE [ok |-> FALSE]
         ELSE IF c >= 224 /\ c <= 239
         THEN IF /\ IsCont(b, i + 1, IF c = 224 THEN 160 ELSE 128,
                                     IF c = 237 THEN 159 ELSE 191)
                 /\ IsCont(b, i + 2, 128, 191)
              THEN Utf8Decode(b, i + 3,
                       Append(acc, (c - 224) * 4096 + (b[i + 1] - 128) * 64
                                   + (b[i + 2] - 128)))
              ELSE [ok |-> FALSE]
         ELSE IF c >= 240 /\ c <= 244
         THEN IF /\ IsCont(b, i + 1, IF c = 240 THEN 144 ELSE 128,
                                     IF c = 244 THEN 143 ELSE 191)
                 /\ IsCont(b, i + 2, 128, 191)
                 /\ IsCont(b, i + 3, 128, 191)
              THEN Utf8Decode(b, i + 4,
                       Append(acc, (c - 240) * 262144 + (b[i + 1] - 128) * 4096
                                   + (b[i + 2] - 128) * 64 + (b[i + 3] - 128)))
              ELSE [ok |-> FALSE]
         ELSE [ok |-> FALSE]

from_utf8(bytes) == Utf8Decode(bytes, 1, <<>>)

(***************************************************************************)
(* Result<T, E>                                                            *)
(***************************************************************************)
Ok(x) == [ok |-> TRUE, val |-> x]
Err(e) == [ok |-> FALSE, err |-> e]

\* std::io::Error::new(ErrorKind::InvalidData, cause)
InvalidData(cause) == [kind |-> "InvalidData", cause |-> cause]

(***************************************************************************)
(* json::JsonValue, its pretty printer and json::parse.  A string value    *)
(* and an object key are sequences of code points; an object is the        *)
(* sequence of its members <<key, value>> in insertion order, keys         *)
(* distinct.  Numbers are integers: the printer and the parser below       *)
(* cover JSON texts without fractions, exponents and \u escapes.           *)
(***************************************************************************)
JNull == [t |-> "Null"]
JBool(b) == [t |-> "Boolean", b |-> b]
JNumber(n) == [t |-> "Number", n |-> n]
JString(s) == [t |-> "String", s |-> s]
JArray(items) == [t |-> "Array", items |-> items]
JObject(members) == [t |-> "Object", members |-> members]

RECURSIVE Digits(_)
Digits(n) == IF n < 10 THEN <<48 + n>> ELSE Digits(n \div 10) \o <<48 + (n % 10)>>

WriteNumber(n) == IF n < 0 THEN <<45>> \o Digits(-n) ELSE Digits(n)

RECURSIVE Escape(_)
Escape(s) ==
    IF s = <<>> THEN <<>>
    ELSE (IF Head(s) \in {34, 92} THEN <<92, Head(s)>> ELSE <<Head(s)>>)
         \o Escape(Tail(s))

WriteString(s) == <<34>> \o Escape(s) \o <<34>>

NewLine(spaces, dent) == <<10>> \o [i \in 1..(spaces * dent) |-> 32]

RECURSIVE WriteJson(_, _, _), WriteItems(_, _, _, _), WriteMembers(_, _, _, _)
WriteJson(v, spaces, dent) ==
    CASE v.t = "Null" -> Lit(<<"n","u","l","l">>)
      [] v.t = "Boolean" ->
            IF v.b THEN Lit(<<"t","r","u","e">>) ELSE Lit(<<"f","a","l","s","e">>)
      [] v.t = "Number" -> WriteNumber(v.n)
      [] v.t = "String" -> WriteString(v.s)
      [] v.t = "Array" ->
            IF v.items = <<>>
            THEN Lit(<<"[","]">>)
            ELSE Lit(<<"[">>) \o WriteItems(v.items, 1, spaces, dent + 1)
                 \o NewLine(spaces, dent) \o Lit(<<"]">>)
      [] v.t = "Object" ->
            IF v.members = <<>>
            THEN Lit(<<"{","}">>)
            ELSE Lit(<<"{">>) \o WriteMembers(v.members, 1, spaces, dent + 1)
                 \o NewLine(spaces, dent) \o Lit(<<"}">>)

WriteItems(items, i, spaces, dent) ==
    IF i > Len(items) THEN <<>>
    ELSE (IF i > 1 THEN Lit(<<",">>) ELSE <<>>)
         \o NewLine(spaces, dent)
         \o WriteJson(items[i], spaces, dent)
         \o WriteItems(items, i + 1, spaces, dent)

WriteMembers(members, i, spaces, dent) ==
    IF i > Len(members) THEN <<>>
    ELSE (IF i > 1 THEN Lit(<<",">>) ELSE <<>>)
         \o NewLine(spaces, dent)
         \o WriteString(members[i][1]) \o Lit(<<":"," ">>)
         \o WriteJson(members[i][2], spaces, dent)
         \o WriteMembers(members, i + 1, spaces, dent)

\* JsonValue::pretty(spaces)
JsonValue_pretty(data, spaces) == WriteJson(data, spaces, 0)

\* The parser: every Parse* operator returns ParseFail or ParseDone(value, next).
ParseFail == [ok |-> FALSE]
ParseDone(v, i) == [ok |-> TRUE, val |-> v, pos |-> i]

IsWs(c) == c \in {32, 9, 10, 13}
IsDigit(c) == c >= 48 /\ c <= 57

RECURSIVE SkipWs(_, _)
SkipWs(t, i) == IF i <= Len(t) /\ IsWs(t[i]) THEN SkipWs(t, i + 1) ELSE i

StartsWith(t, i, lit) ==
    i + Len(lit) - 1 <= Len(t) /\ SubSeq(t, i, i + Len(lit) - 1) = lit

RECURSIVE ParseDigits(_, _, _)
ParseDigits(t, i, acc) ==
    IF i <= Len(t) /\ IsDigit(t[i])
    THEN ParseDigits(t, i + 1, acc * 10 + (t[i] - 48))
    ELSE ParseDone(acc, i)

ParseNumber(t, i) ==
    LET neg == t[i] = 45
        j == IF neg THEN i + 1 ELSE i
    IN  IF j > Len(t) \/ ~IsDigit(t[j])
        THEN ParseFail
        ELSE LET r == IF t[j] = 48 THEN ParseDone(0, j + 1) ELSE ParseDigits(t, j, 0)
             IN  ParseDone(JNumber(IF neg THEN 0 - r.val ELSE r.val), r.pos)

\* The character an escape \c stands for, or -1.
Unescape(c) ==
    CASE c = 34 -> 34
      [] c = 92 -> 92
      [] c = 47 -> 47
      [] c = 98 -> 8
      [] c = 102 -> 12
      [] c = 110 -> 10
      [] c = 114 -> 13
      [] c = 116 -> 9
      [] OTHER -> -1

\* The rest of a string, from the character after its opening quotation mark.
RECURSIVE ParseString(_, _, _)
ParseString(t, i, acc) ==
    IF i > Len(t) THEN ParseFail
    ELSE IF t[i] = 34 THEN ParseDone(acc, i + 1)
    ELSE IF t[i] = 92
         THEN IF i + 1 > Len(t) \/ Unescape(t[i + 1]) < 0
              THEN ParseFail
              ELSE ParseString(t, i + 2, Append(acc, Unescape(t[i + 1])))
    ELSE IF t[i] < 32 THEN ParseFail
    ELSE ParseString(t, i + 1, Append(acc, t[i]))

\* Object::insert: a repeated key replaces the value of its member.
ObjectInsert(members, k, v) ==
    IF \E i \in DOMAIN members : members[i][1] = k
    THEN [i \in DOMAIN members |->
            IF members[i][1] = k THEN <<k, v>> ELSE members[i]]
    ELSE Append(members, <<k, v>>)

RECURSIVE ParseValue(_, _), ParseElems(_, _, _), ParseMembers(_, _, _)
ParseValue(t, i0) ==
    LET i == SkipWs(t, i0) IN
    IF i > Len(t) THEN ParseFail
    ELSE CASE t[i] = 110 ->
                IF StartsWith(t, i, Lit(<<"n","u","l","l">>))
                THEN ParseDone(JNull, i + 4) ELSE ParseFail
           [] t[i] = 116 ->
                IF StartsWith(t, i, Lit(<<"t","r","u","e">>))
                THEN ParseDone(JBool(TRUE), i + 4) ELSE ParseFail
           [] t[i] = 102 ->
                IF StartsWith(t, i, Lit(<<"f","a","l","s","e">>))
                THEN ParseDone(JBool(FALSE), i + 5) ELSE ParseFail
           [] t[i] = 34 ->
                LET r == ParseString(t, i + 1, <<>>) IN
                IF r.ok THEN ParseDone(JString(r.val), r.pos) ELSE ParseFail
           [] t[i] = 91 ->
                LET j == SkipWs(t, i + 1) IN
                IF j <= Len(t) /\ t[j] = 93
                THEN ParseDone(JArray(<<>>), j + 1)
                ELSE ParseElems(t, j, <<>>)
           [] t[i] = 123 ->
                LET j == SkipWs(t, i + 1) IN
                IF j <= Len(t) /\ t[j] = 125
                THEN ParseDone(JObject(<<>>), j + 1)
                ELSE ParseMembers(t, j, <<>>)
           [] t[i] = 45 \/ IsDigit(t[i]) -> ParseNumber(t, i)
           [] OTHER -> ParseFail

ParseElems(t, i, acc) ==
    LET r == ParseValue(t, i) IN
    IF ~r.ok THEN ParseFail
    ELSE LET j == SkipWs(t, r.pos) IN
         IF j > Len(t) THEN ParseFail
         ELSE IF t[j] = 44 THEN ParseElems(t, j + 1, Append(acc, r.val))
         ELSE IF t[j] = 93 THEN ParseDone(JArray(Append(acc, r.val)), j + 1)
         ELSE ParseFail

ParseMembers(t, i0, acc) ==
    LET i == SkipWs(t, i0) IN
    IF i > Len(t) \/ t[i] # 34 THEN ParseFail
    ELSE LET k == ParseString(t, i + 1, <<>>) IN
         IF ~k.ok THEN ParseFail
         ELSE LET c == SkipWs(t, k.pos) IN
              IF c > Len(t) \/ t[c] # 58 THEN ParseFail
              ELSE LET r == ParseValue(t, c + 1) IN
                   IF ~r.ok THEN ParseFail
                   ELSE LET j == SkipWs(t, r.pos)
                            next == ObjectInsert(acc, k.val, r.val)
                        IN  IF j > Len(t) THEN ParseFail
                            ELSE IF t[j] = 44 THEN ParseMembers(t, j + 1, next)
                            ELSE IF t[j] = 125 THEN ParseDone(JObject(next), j + 1)
                            ELSE ParseFail

\* json::parse: one value, then nothing but white space.
json_parse(text) ==
    LET r == ParseValue(text, 1) IN
    IF r.ok /\ SkipWs(text, r.pos) > Len(text)
    THEN Ok(r.val)
    ELSE Err("json::Error")

\* JsonValue's PartialEq: arrays member by member, objects key by key.
RECURSIVE JsonEq(_, _)
JsonEq(a, b) ==
    IF a.t # b.t THEN FALSE
    ELSE CASE a.t = "Array" ->
                /\ Len(a.items) = Len(b.items)
                /\ \A i \in DOMAIN a.items : JsonEq(a.items[i], b.items[i])
           [] a.t = "Object" ->
                /\ Len(a.members) = Len(b.members)
                /\ \A i \in DOMAIN a.members :
                    \E j \in DOMAIN b.members :
                        /\ a.members[i][1] = b.members[j][1]
                        /\ JsonEq(a.members[i][2], b.members[j][2])
           [] OTHER -> a = b

(***************************************************************************)
(* MessageBody and HttpMessage                                             *)
(***************************************************************************)
CONTENT_TYPE == <<"C","o","n","t","e","n","t","-","T","y","p","e">>
APPLICATION_JSON == "application/json"
ACCEPT == <<"A","c","c","e","p","t">>

MessageBody_None == [tag |-> "None"]
MessageBody_Single(data) == [tag |-> "Single", data |-> data]
MessageBody_MultiPart == [tag |-> "MultiPart"]

is_none(body) == body.tag = "None"
is_single(body) == body.tag = "Single"
is_multipart(body) == body.tag = "MultiPart"

HttpMessage_new == [headers |-> HeaderMap_new, body |-> MessageBody_None]

HttpMessage_insert_header(self, key, value) ==
    [self EXCEPT !.headers = HeaderMap_insert(self.headers, key, value).self]

HttpMessage_headers(self) == self.headers

HttpMessage_has_single_body(self) == is_single(self.body)

HttpMessage_has_multipart_body(self) == is_multipart(self.body)

\* set_body adding the data to the buffer of a Single body.
HttpMessage_set_body_append(self, data) ==
    IF is_single(self.body)
    THEN [self EXCEPT !.body = MessageBody_Single(self.body.data \o data)]
    ELSE [self EXCEPT !.body = MessageBody_Single(data)]

\* set_body dropping the body of a message that has one.
HttpMessage_set_body_toggle(self, data) ==
    IF is_single(self.body)
    THEN [self EXCEPT !.body = MessageBody_None]
    ELSE [self EXCEPT !.body = MessageBody_Single(data)]

HttpMessage_set_body(self, data) ==
    [self EXCEPT !.body = MessageBody_Single(data)]

HttpMessage_body(self) ==
    IF self.body.tag = "Single" THEN Some(self.body.data) ELSE None

\* set_json leaving the headers as they are.
HttpMessage_set_json_no_header(self, data) ==
    HttpMessage_set_body(self, into_bytes(JsonValue_pretty(data, 4)))

HttpMessage_set_json(self, data) ==
    LET pretty == JsonValue_pretty(data, 4)
        inserted == [self EXCEPT !.headers =
                        HeaderMap_insert(self.headers, CONTENT_TYPE,
                                         APPLICATION_JSON).self]
    IN  HttpMessage_set_body(inserted, into_bytes(pretty))

\* json() refusing a message whose Content-Type is not application/json.
HttpMessage_json_by_content_type(self) ==
    IF \/ ~is_single(self.body)
       \/ HeaderMap_get(self.headers, CONTENT_TYPE) # Some(APPLICATION_JSON)
    THEN Err(InvalidData("Empty body"))
    ELSE LET str_body == from_utf8(HttpMessage_body(self).val) IN
         IF ~str_body.ok
         THEN Err(InvalidData("Utf8Error"))
         ELSE LET result == json_parse(str_body.text) IN
              IF result.ok
              THEN Ok(result.val)
              ELSE Err(InvalidData(result.err))

HttpMessage_json(self) ==
    IF ~is_single(self.body)
    THEN Err(InvalidData("Empty body"))
    ELSE LET str_body == from_utf8(HttpMessage_body(self).val) IN
         IF ~str_body.ok
         THEN Err(InvalidData("Utf8Error"))
         ELSE LET result == json_parse(str_body.text) IN
              IF result.ok
              THEN Ok(result.val)
              ELSE Err(InvalidData(result.err))

(***************************************************************************)
(* url::Url and Url::parse, for targets of the form scheme:[//]host[/path]. *)
(* A target without a scheme is a relative URL, which parse refuses for    *)
(* want of a base; scheme and host are lower-cased and an empty path       *)
(* becomes "/".                                                            *)
(***************************************************************************)
IsAlpha(c) == ToLower(c) # ToUpper(c)
IsSchemeChar(c) == IsAlpha(c) \/ c \in {"0","1","2","3","4","5","6","7","8","9","+","-","."}

FirstIndex(s, c) ==
    IF \E i \in DOMAIN s : s[i] = c
    THEN CHOOSE i \in DOMAIN s : s[i] = c /\ \A j \in 1..(i - 1) : s[j] # c
    ELSE 0

RECURSIVE DropSlashes(_)
DropSlashes(s) == IF s # <<>> /\ Head(s) = "/" THEN DropSlashes(Tail(s)) ELSE s

Url_parse(input) ==
    LET colon == FirstIndex(input, ":") IN
    IF \/ colon <= 1
       \/ ~IsAlpha(input[1])
       \/ \E i \in 1..(colon - 1) : ~IsSchemeChar(input[i])
    THEN Err("RelativeUrlWithoutBase")
    ELSE LET rest == DropSlashes(SubSeq(input, colon + 1, Len(input)))
             slash == FirstIndex(rest, "/")
             host == IF slash = 0 THEN rest ELSE SubSeq(rest, 1, slash - 1)
             path == IF slash = 0 THEN <<"/">> ELSE SubSeq(rest, slash, Len(rest))
         IN  IF host = <<>>
             THEN Err("EmptyHost")
             ELSE Ok([scheme |-> Fold(SubSeq(input, 1, colon - 1)),
                      host |-> Fold(host),
                      path |-> path])

Url_as_str(u) == u.scheme \o <<":","/","/">> \o u.host \o u.path

\* Result::ok
Result_ok(r) == IF r.ok THEN Some(r.val) ELSE None

(***************************************************************************)
(* Request                                                                 *)
(***************************************************************************)
HttpMethod == {"GET", "HEAD", "POST", "PUT", "DELETE", "CONNECT", "OPTIONS",
               "TRACE", "PATCH"}

\* Request::new keeping the parsed URL's text as the target when it parses.
Request_new_normalized(method, url) ==
    LET parsed_url == Url_parse(url) IN
    [base |-> HttpMessage_new,
     method |-> method,
     target |-> IF parsed_url.ok THEN Url_as_str(parsed_url.val) ELSE url,
     url |-> Result_ok(parsed_url),
     cookies |-> KeyValueMap_new,
     params |-> KeyValueMap_new]

Request_new(method, url) ==
    LET target == url
        parsed_url == Url_parse(target)
    IN  [base |-> HttpMessage_new,
         method |-> method,
         target |-> target,
         url |-> Result_ok(parsed_url),
         cookies |-> KeyValueMap_new,
         params |-> KeyValueMap_new]

Request_connect(url) == Request_new("CONNECT", url)

Request_delete(url) == Request_new("DELETE", url)

Request_get(url) == Request_new("GET", url)

Request_head(url) == Request_new("HEAD", url)

Request_options(url) == Request_new("OPTIONS", url)

Request_patch(url) == Request_new("PATCH", url)

Request_post(url) == Request_new("POST", url)

\* Request::put building a POST request.
Request_put_as_post(url) == Request_new("POST", url)

Request_put(url) == Request_new("PUT", url)

Request_trace(url) == Request_new("TRACE", url)

Request_method(self) == self.method

\* insert_param appending the parameter to the target as well.
Request_insert_param_into_target(self, key, value) ==
    [self EXCEPT !.params = KeyValueMap_insert(self.params, key, value).self,
                 !.target = self.target \o <<"?">> \o key]

Request_insert_param(self, key, value) ==
    [self EXCEPT !.params = KeyValueMap_insert(self.params, key, value).self]

Request_params(self) == self.params

\* params_mut and cookies_mut return a mutable reference to a field of the
\* Request: the name of the field the reference points to.
Request_params_mut(self) == "params"

Request_insert_cookie(self, key, value) ==
    [self EXCEPT !.cookies = KeyValueMap_insert(self.cookies, key, value).self]

Request_cookies(self) == self.cookies

Request_cookies_mut(self) == "params"

Request_target(self) == self.target

Request_url(self) == self.url

\* Deref / DerefMut: the HttpMessage a Request forwards to.
Request_deref(self) == self.base

(***************************************************************************)
(* Response                                                                *)
(***************************************************************************)
HTTP_200_OK == 200
HTTP_401_UNAUTHORIZED == 401

\* wcookie::SetCookie::new(name, value): the attributes are left unset.
SetCookie_new(name, value) == [name |-> name, value |-> value]

Response_new(status) ==
    [base |-> HttpMessage_new,
     cookies |-> <<>>,
     status_code |-> status,
     auth |-> <<>>,
     proxy_auth |-> <<>>]

Response_status_code(self) == self.status_code

\* insert_cookie replacing a cookie of the same name, compared without case.
Response_insert_cookie_by_name(self, value) ==
    LET same == {i \in 1..Len(self.cookies) :
                    UniCaseEq(self.cookies[i].name, value.name)}
    IN  IF same = {}
        THEN [self EXCEPT !.cookies = Append(self.cookies, value)]
        ELSE [self EXCEPT !.cookies[CHOOSE i \in same : TRUE] = value]

Response_insert_cookie(self, value) ==
    [self EXCEPT !.cookies = Append(self.cookies, value)]

Response_cookies(self) == [i \in 1..Len(self.cookies) |-> self.cookies[i]]

Response_insert_auth_headers(self, auth) ==
    [self EXCEPT !.auth = Append(self.auth, auth)]

Response_auth_headers(self) == self.auth

\* auth_headers_mut and proxy_auth_headers_mut return a mutable reference to
\* a field of the Response: the name of the field the reference points to.
Response_auth_headers_mut(self) == "auth"

\* insert_proxy_auth_header pushing onto the auth list.
Response_insert_proxy_auth_header_into_auth(self, auth) ==
    [self EXCEPT !.auth = Append(self.auth, auth)]

Response_insert_proxy_auth_header(self, auth) ==
    [self EXCEPT !.proxy_auth = Append(self.proxy_auth, auth)]

Response_proxy_auth_headers(self) == self.proxy_auth

Response_proxy_auth_headers_mut(self) == "proxy_auth"

\* Deref / DerefMut: the HttpMessage a Response forwards to.
Response_deref(self) == self.base

(***************************************************************************)
(* Inputs.                                                                 *)
(***************************************************************************)
HeaderKeys == {<<"a","b">>, <<"A","b">>, <<"A","B">>, <<"c","-">>}
HeaderValues == {"v1", "v2"}
HeaderPairs == HeaderKeys \X HeaderValues
HeaderVecs(n) == UNION {[1..m -> HeaderPairs] : m \in 0..n}

ParamKeys == {<<"i","d">>, <<"I","D">>}
ParamValues == {"1234", "3456"}

MsgHeaderKeys == {CONTENT_TYPE, Fold(CONTENT_TYPE), ACCEPT}
MsgHeaderValues == {APPLICATION_JSON, "text/plain"}

JsonInputs ==
    { JNull, JBool(TRUE), JNumber(-12), JString(<<74, 34, 92, 233>>),
      JArray(<<>>), JObject(<<>>),
      JArray(<<JNumber(1), JString(Lit(<<"a">>))>>),
      JObject(<< <<Lit(<<"n">>), JArray(<<JNull>>)>> >>),
      JObject(<< <<Lit(<<"a">>), JBool(FALSE)>>, <<Lit(<<"b">>), JObject(<<>>)>> >>) }

\* Bodies for set_body, each with what json() is to make of it: bytes that
\* are not UTF-8, UTF-8 text that is not JSON, and JSON texts.
BadUtf8 == Err(InvalidData("Utf8Error"))
BadJson == Err(InvalidData("json::Error"))
BodyInputs ==
    { [data |-> <<255>>, expect |-> BadUtf8],
      [data |-> <<123, 195>>, expect |-> BadUtf8],
      [data |-> <<237, 160, 128>>, expect |-> BadUtf8],
      [data |-> <<192, 175>>, expect |-> BadUtf8],
      [data |-> <<>>, expect |-> BadJson],
      [data |-> Lit(<<"{">>), expect |-> BadJson],
      [data |-> Lit(<<"n","u","l">>), expect |-> BadJson],
      [data |-> Lit(<<"[","1",",","]">>), expect |-> BadJson],
      [data |-> Lit(<<"1"," ","2">>), expect |-> BadJson],
      [data |-> <<195, 169>>, expect |-> BadJson],
      [data |-> Lit(<<"1","0">>), expect |-> Ok(JNumber(10))],
      [data |-> Lit(<<" ","[","1",","," ","t","r","u","e","]"," ">>),
       expect |-> Ok(JArray(<<JNumber(1), JBool(TRUE)>>))],
      [data |-> <<34, 195, 169, 34>>, expect |-> Ok(JString(<<233>>))],
      [data |-> <<123, 34, 97, 34, 58, 49, 125>>,
       expect |-> Ok(JObject(<< <<Lit(<<"a">>), JNumber(1)>> >>))] }

Targets ==
    { <<"h","t","t","p",":","/","/","e","x","/","u">>,
      <<"h","t","t","p","/","/","e","x","/","u">>,
      <<"H","T","T","P",":","/","/","E","x">>,
      <<>> }

StatusCodes == {HTTP_200_OK, HTTP_401_UNAUTHORIZED}
CookieNames == {<<"s","i","d">>, <<"S","i","d">>}
CookieValues == {"1234", "3456"}
SetCookies == {SetCookie_new(n, v) : n \in CookieNames, v \in CookieValues}
AuthStrings == {"Basic", "Digest"}
RespHeaderKeys == {CONTENT_TYPE}
RespHeaderValues == {"text/plain"}
RespBodies == {Lit(<<"1","0">>)}
RespJsonInputs == {JNull}

ReqHeaderKeys == {CONTENT_TYPE, Fold(CONTENT_TYPE)}
ReqHeaderValues == {"text/plain"}
ReqBodies == {<<255>>, Lit(<<"1","0">>)}
ReqJsonInputs == {JNull, JArray(<<JNumber(1)>>)}

\* Every ASCII case variant of a key.
RECURSIVE CaseVariants(_)
CaseVariants(k) ==
    IF k = <<>>
    THEN {<<>>}
    ELSE {<<c>> \o t : c \in {ToLower(Head(k)), ToUpper(Head(k))},
                       t \in CaseVariants(Tail(k))}

(***************************************************************************)
(* The state of each object right after its construction.                  *)
(***************************************************************************)
MapsConstructed ==
    /\ hm = HeaderMap_new
    /\ hm_src = [kind |-> "new"]
    /\ hlog = <<>>
    /\ kv = KeyValueMap_new
    /\ klog = <<>>

MessageConstructed ==
    /\ msg = HttpMessage_new
    /\ expect = Err(InvalidData("Empty body"))

RequestConstructed(method, url) ==
    /\ request = Request_new(method, url)
    /\ ctor = [by |-> "new", method |-> method, url |-> url]

\* The method-named constructors, by name.
NamedConstructor ==
    [connect |-> [url \in Targets |-> Request_connect(url)],
     delete |-> [url \in Targets |-> Request_delete(url)],
     get |-> [url \in Targets |-> Request_get(url)],
     head |-> [url \in Targets |-> Request_head(url)],
     options |-> [url \in Targets |-> Request_options(url)],
     patch |-> [url \in Targets |-> Request_patch(url)],
     post |-> [url \in Targets |-> Request_post(url)],
     put |-> [url \in Targets |-> Request_put(url)],
     trace |-> [url \in Targets |-> Request_trace(url)]]

\* The HttpMethod each method-named constructor is named after.
MethodNamed ==
    [connect |-> "CONNECT", delete |-> "DELETE", get |-> "GET", head |-> "HEAD",
     options |-> "OPTIONS", patch |-> "PATCH", post |-> "POST", put |-> "PUT",
     trace |-> "TRACE"]

RequestConstructedBy(name, url) ==
    /\ request = NamedConstructor[name][url]
    /\ ctor = [by |-> name, method |-> MethodNamed[name], url |-> url]

ResponseConstructed(status) ==
    /\ response = Response_new(status)
    /\ rlog = <<>>

NoCallYet ==
    /\ op = [name |-> "new"]
    /\ ret = None
    /\ steps = 0

(***************************************************************************)
(* The maps on their own: a HeaderMap and a KeyValueMap under any sequence *)
(* of constructions and inserts.                                           *)
(***************************************************************************)
InitMaps ==
    /\ MapsConstructed
    /\ MessageConstructed
    /\ RequestConstructed("GET", <<>>)
    /\ ResponseConstructed(HTTP_200_OK)
    /\ NoCallYet

HM_Insert ==
    \E k \in HeaderKeys, v \in HeaderValues :
        LET r == HeaderMap_insert(hm, k, v) IN
        /\ steps < MaxOps
        /\ hm' = r.self
        /\ ret' = Some(r.ret)
        /\ op' = [name |-> "HeaderMap::insert", key |-> k, value |-> v]
        /\ hlog' = Append(hlog, [key |-> k, value |-> v])
        /\ steps' = steps + 1
        /\ UNCHANGED <<hm_src, kv, klog, msgVars, reqVars, respVars>>

HM_FromOwned ==
    \E value \in HeaderVecs(MaxOps - steps) :
        /\ hm' = HeaderMap_from_owned(value)
        /\ hm_src' = [kind |-> "from_owned", value |-> value]
        /\ op' = [name |-> "HeaderMap::from(Vec<(String, String)>)", value |-> value]
        /\ hlog' = <<>>
        /\ ret' = None
        /\ steps' = steps + Len(value)
        /\ UNCHANGED <<kv, klog, msgVars, reqVars, respVars>>

HM_FromRef ==
    \E value \in HeaderVecs(MaxOps - steps) :
        /\ hm' = HeaderMap_from_ref(value)
        /\ hm_src' = [kind |-> "from_ref", value |-> value]
        /\ op' = [name |-> "HeaderMap::from(&Vec<(&str, &str)>)", value |-> value]
        /\ hlog' = <<>>
        /\ ret' = None
        /\ steps' = steps + Len(value)
        /\ UNCHANGED <<kv, klog, msgVars, reqVars, respVars>>

KV_Insert ==
    \E k \in ParamKeys, v \in ParamValues :
        LET r == KeyValueMap_insert(kv, k, v) IN
        /\ steps < MaxOps
        /\ kv' = r.self
        /\ ret' = Some(r.ret)
        /\ op' = [name |-> "KeyValueMap::insert", key |-> k, value |-> v]
        /\ klog' = Append(klog, [key |-> k, value |-> v])
        /\ steps' = steps + 1
        /\ UNCHANGED <<hm, hm_src, hlog, msgVars, reqVars, respVars>>

NextMaps == HM_Insert \/ HM_FromOwned \/ HM_FromRef \/ KV_Insert

SpecMaps == InitMaps /\ [][NextMaps]_vars

(***************************************************************************)
(* An HttpMessage under any sequence of header and body calls.             *)
(***************************************************************************)
InitMessage ==
    /\ MapsConstructed
    /\ MessageConstructed
    /\ RequestConstructed("GET", <<>>)
    /\ ResponseConstructed(HTTP_200_OK)
    /\ NoCallYet

Msg_InsertHeader ==
    \E k \in MsgHeaderKeys, v \in MsgHeaderValues :
        /\ steps < MaxMsgOps
        /\ msg' = HttpMessage_insert_header(msg, k, v)
        /\ op' = [name |-> "insert_header", key |-> k, value |-> v]
        /\ ret' = None
        /\ steps' = steps + 1
        /\ UNCHANGED <<expect, mapVars, reqVars, respVars>>

Msg_SetBody ==
    \E b \in BodyInputs :
        /\ steps < MaxMsgOps
        /\ msg' = HttpMessage_set_body(msg, b.data)
        /\ expect' = b.expect
        /\ op' = [name |-> "set_body", data |-> b.data, found |-> msg.body]
        /\ ret' = None
        /\ steps' = steps + 1
        /\ UNCHANGED <<mapVars, reqVars, respVars>>

Msg_SetJson ==
    \E v \in JsonInputs :
        /\ steps < MaxMsgOps
        /\ msg' = HttpMessage_set_json(msg, v)
        /\ expect' = Ok(v)
        /\ op' = [name |-> "set_json", data |-> v]
        /\ ret' = None
        /\ steps' = steps + 1
        /\ UNCHANGED <<mapVars, reqVars, respVars>>

Msg_Json ==
    /\ steps < MaxMsgOps
    /\ ret' = Some(HttpMessage_json(msg))
    /\ op' = [name |-> "json"]
    /\ steps' = steps + 1
    /\ UNCHANGED <<msgVars, mapVars, reqVars, respVars>>

NextMessage == Msg_InsertHeader \/ Msg_SetBody \/ Msg_SetJson \/ Msg_Json

SpecMessage == InitMessage /\ [][NextMessage]_vars

(***************************************************************************)
(* A Request from its construction on, under any sequence of calls.  The   *)
(* header and body calls reach the embedded HttpMessage through DerefMut.  *)
(***************************************************************************)
InitRequest ==
    /\ MapsConstructed
    /\ MessageConstructed
    /\ \/ \E method \in HttpMethod, url \in Targets : RequestConstructed(method, url)
       \/ \E name \in DOMAIN NamedConstructor, url \in Targets :
             RequestConstructedBy(name, url)
    /\ ResponseConstructed(HTTP_200_OK)
    /\ NoCallYet

Called(name, args) ==
    /\ op' = [name |-> name, args |-> args]
    /\ steps' = steps + 1
    /\ UNCHANGED <<ctor, mapVars, msgVars, respVars>>

Req_InsertHeader ==
    \E k \in ReqHeaderKeys, v \in ReqHeaderValues :
        /\ steps < MaxReqOps
        /\ request' = [request EXCEPT
                          !.base = HttpMessage_insert_header(Request_deref(request), k, v)]
        /\ ret' = None
        /\ Called("insert_header", <<k, v>>)

Req_HeadersMutInsert ==
    \E k \in ReqHeaderKeys, v \in ReqHeaderValues :
        LET r == HeaderMap_insert(Request_deref(request).headers, k, v) IN
        /\ steps < MaxReqOps
        /\ request' = [request EXCEPT !.base.headers = r.self]
        /\ ret' = Some(r.ret)
        /\ Called("headers_mut().insert", <<k, v>>)

Req_SetBody ==
    \E data \in ReqBodies :
        /\ steps < MaxReqOps
        /\ request' = [request EXCEPT
                          !.base = HttpMessage_set_body(Request_deref(request), data)]
        /\ ret' = None
        /\ Called("set_body", <<data>>)

Req_SetJson ==
    \E v \in ReqJsonInputs :
        /\ steps < MaxReqOps
        /\ request' = [request EXCEPT
                          !.base = HttpMessage_set_json(Request_deref(request), v)]
        /\ ret' = None
        /\ Called("set_json", <<v>>)

Req_Json ==
    /\ steps < MaxReqOps
    /\ ret' = Some(HttpMessage_json(Request_deref(request)))
    /\ UNCHANGED request
    /\ Called("json", <<>>)

Req_InsertParam ==
    \E k \in ParamKeys, v \in ParamValues :
        /\ steps < MaxReqOps
        /\ request' = Request_insert_param(request, k, v)
        /\ ret' = None
        /\ Called("insert_param", <<k, v>>)

Req_ParamsMutInsert ==
    \E k \in ParamKeys, v \in ParamValues :
        LET field == Request_params_mut(request)
            r == KeyValueMap_insert(request[field], k, v)
        IN  /\ steps < MaxReqOps
            /\ request' = [request EXCEPT ![field] = r.self]
            /\ ret' = Some(r.ret)
            /\ Called("params_mut().insert", <<k, v>>)

Req_InsertCookie ==
    \E k \in ParamKeys, v \in ParamValues :
        /\ steps < MaxReqOps
        /\ request' = Request_insert_cookie(request, k, v)
        /\ ret' = None
        /\ Called("insert_cookie", <<k, v>>)

Req_CookiesMutInsert ==
    \E k \in ParamKeys, v \in ParamValues :
        LET field == Request_cookies_mut(request)
            r == KeyValueMap_insert(request[field], k, v)
        IN  /\ steps < MaxReqOps
            /\ request' = [request EXCEPT ![field] = r.self]
            /\ ret' = Some(r.ret)
            /\ Called("cookies_mut().insert", <<k, v>>)

NextRequest ==
    \/ Req_InsertHeader
    \/ Req_HeadersMutInsert
    \/ Req_SetBody
    \/ Req_SetJson
    \/ Req_Json
    \/ Req_InsertParam
    \/ Req_ParamsMutInsert
    \/ Req_InsertCookie
    \/ Req_CookiesMutInsert

SpecRequest == InitRequest /\ [][NextRequest]_vars

(***************************************************************************)
(* A Response from its construction on, under any sequence of calls.  The  *)
(* header and body calls reach the embedded HttpMessage through DerefMut.  *)
(***************************************************************************)
InitResponse ==
    /\ MapsConstructed
    /\ MessageConstructed
    /\ RequestConstructed("GET", <<>>)
    /\ \E status \in StatusCodes : ResponseConstructed(status)
    /\ NoCallYet

RespCalled(name, args) ==
    /\ op' = [name |-> name, args |-> args]
    /\ rlog' = Append(rlog, [name |-> name, args |-> args])
    /\ ret' = None
    /\ steps' = steps + 1
    /\ UNCHANGED <<mapVars, msgVars, reqVars>>

Resp_InsertCookie ==
    \E value \in SetCookies :
        /\ steps < MaxRespOps
        /\ response' = Response_insert_cookie(response, value)
        /\ RespCalled("insert_cookie", <<value>>)

Resp_InsertAuthHeaders ==
    \E auth \in AuthStrings :
        /\ steps < MaxRespOps
        /\ response' = Response_insert_auth_headers(response, auth)
        /\ RespCalled("insert_auth_headers", <<auth>>)

Resp_AuthHeadersMutPush ==
    \E auth \in AuthStrings :
        LET field == Response_auth_headers_mut(response) IN
        /\ steps < MaxRespOps
        /\ response' = [response EXCEPT ![field] = Append(response[field], auth)]
        /\ RespCalled("auth_headers_mut().push", <<auth>>)

Resp_InsertProxyAuthHeader ==
    \E auth \in AuthStrings :
        /\ steps < MaxRespOps
        /\ response' = Response_insert_proxy_auth_header(response, auth)
        /\ RespCalled("insert_proxy_auth_header", <<auth>>)

Resp_ProxyAuthHeadersMutPush ==
    \E auth \in AuthStrings :
        LET field == Response_proxy_auth_headers_mut(response) IN
        /\ steps < MaxRespOps
        /\ response' = [response EXCEPT ![field] = Append(response[field], auth)]
        /\ RespCalled("proxy_auth_headers_mut().push", <<auth>>)

Resp_InsertHeader ==
    \E k \in RespHeaderKeys, v \in RespHeaderValues :
        /\ steps < MaxRespOps
        /\ response' = [response EXCEPT
                           !.base = HttpMessage_insert_header(Response_deref(response), k, v)]
        /\ RespCalled("insert_header", <<k, v>>)

Resp_SetBody ==
    \E data \in RespBodies :
        /\ steps < MaxRespOps
        /\ response' = [response EXCEPT
                           !.base = HttpMessage_set_body(Response_deref(response), data)]
        /\ RespCalled("set_body", <<data>>)

Resp_SetJson ==
    \E v \in RespJsonInputs :
        /\ steps < MaxRespOps
        /\ response' = [response EXCEPT
                           !.base = HttpMessage_set_json(Response_deref(response), v)]
        /\ RespCalled("set_json", <<v>>)

NextResponse ==
    \/ Resp_InsertCookie
    \/ Resp_InsertAuthHeaders
    \/ Resp_AuthHeadersMutPush
    \/ Resp_InsertProxyAuthHeader
    \/ Resp_ProxyAuthHeadersMutPush
    \/ Resp_InsertHeader
    \/ Resp_SetBody
    \/ Resp_SetJson

SpecResponse == InitResponse /\ [][NextResponse]_vars

(***************************************************************************)
(* Properties of the maps (checked under SpecMaps).                        *)
(***************************************************************************)
\* The index of the last call of a log whose key satisfies the identity of k.
LastCI(log, k) ==
    CHOOSE i \in DOMAIN log :
        /\ UniCaseEq(log[i].key, k)
        /\ \A j \in DOMAIN log : UniCaseEq(log[j].key, k) => j <= i

LastExact(log, k) ==
    CHOOSE i \in DOMAIN log :
        /\ log[i].key = k
        /\ \A j \in DOMAIN log : log[j].key = k => j <= i

\* C1: after any sequence of HeaderMap inserts, get under every ASCII case
\* variant of an inserted key returns the value of the most recent insert
\* whose key is equal to it up to case.
C1_GetAnyCaseReturnsLastInsert ==
    \A i \in DOMAIN hlog :
        \A k2 \in CaseVariants(hlog[i].key) :
            HeaderMap_get(hm, k2) = Some(hlog[LastCI(hlog, k2)].value)

C1_Witness ==
    /\ Len(hlog) >= 2
    /\ \E i, j \in DOMAIN hlog :
        /\ i < j
        /\ hlog[i].key # hlog[j].key
        /\ UniCaseEq(hlog[i].key, hlog[j].key)
        /\ hlog[i].value # hlog[j].value
        /\ j = LastCI(hlog, hlog[i].key)
        /\ HeaderMap_get(hm, hlog[i].key) = Some(hlog[j].value)

\* The last pair of a vector whose key is equal to k up to case.
LastPairCI(value, k) ==
    CHOOSE i \in DOMAIN value :
        /\ UniCaseEq(value[i][1], k)
        /\ \A j \in DOMAIN value : UniCaseEq(value[j][1], k) => j <= i

\* C2: right after either conversion of a vector of pairs into a HeaderMap,
\* get(k) returns the value of the last pair of the vector whose key is
\* equal to k up to case.
C2_LaterPairsWin ==
    (hm_src.kind \in {"from_owned", "from_ref"} /\ hlog = <<>>) =>
        \A i \in DOMAIN hm_src.value :
            HeaderMap_get(hm, hm_src.value[i][1])
                = Some(hm_src.value[LastPairCI(hm_src.value, hm_src.value[i][1])][2])

\* The same statement for the conversion from &Vec<(&str, &str)> alone.
C2_LaterPairsWinFromRef ==
    (hm_src.kind = "from_ref" /\ hlog = <<>>) =>
        \A i \in DOMAIN hm_src.value :
            HeaderMap_get(hm, hm_src.value[i][1])
                = Some(hm_src.value[LastPairCI(hm_src.value, hm_src.value[i][1])][2])

\* A step that is a call of HeaderMap::insert / KeyValueMap::insert.
IsHeaderInsert == op'.name = "HeaderMap::insert" /\ steps' = steps + 1
IsKeyValueInsert == op'.name = "KeyValueMap::insert" /\ steps' = steps + 1

\* C4 (as stated): after an insert, iter() yields the entry of that key
\* spelled exactly as in this most recent insert.
C4_IterYieldsLatestSpelling ==
    (op.name = "HeaderMap::insert") =>
        \A s \in HeaderMap_iter(hm) :
            \E i \in DOMAIN s : s[i] = <<op.key, op.value>>

\* C4 (amended): an insert under a key that is equal up to case to the key
\* of an existing entry keeps the key as it is stored and replaces the
\* value only: iter() yields the entry once, spelled as before the call.
C4_IterKeepsStoredSpelling ==
    [][IsHeaderInsert =>
        \A e \in hm.map :
            UniCaseEq(e.key, op'.key) =>
                \A s \in HeaderMap_iter(hm') :
                    /\ \E i \in DOMAIN s : s[i] = <<e.key, op'.value>>
                    /\ \A i \in DOMAIN s :
                        UniCaseEq(s[i][1], op'.key) => s[i] = <<e.key, op'.value>>
      ]_vars

C4_Witness ==
    /\ op.name = "HeaderMap::insert"
    /\ \E e \in hm.map :
        /\ UniCaseEq(e.key, op.key)
        /\ e.key # op.key
        /\ e.value = op.value
    /\ \E i \in DOMAIN hlog : i < Len(hlog) /\ UniCaseEq(hlog[i].key, op.key)

\* C5: insert returns true iff the map held an entry of the key's identity
\* (up to case for HeaderMap, exact for KeyValueMap) right before the call,
\* and the value stored under the key afterwards is the inserted one.
C5_InsertReportsPriorEntry ==
    [][/\ IsHeaderInsert =>
            /\ ret' = Some(\E e \in hm.map : UniCaseEq(e.key, op'.key))
            /\ HeaderMap_get(hm', op'.key) = Some(op'.value)
       /\ IsKeyValueInsert =>
            /\ ret' = Some(\E e \in kv.map : e.key = op'.key)
            /\ KeyValueMap_get(kv', op'.key) = Some(op'.value)
      ]_vars

C5_Witness ==
    /\ op.name = "HeaderMap::insert"
    /\ ret = Some(TRUE)
    /\ \A i \in DOMAIN hlog : i < Len(hlog) => hlog[i].key # op.key
    /\ HeaderMap_get(hm, op.key) = Some(op.value)
    /\ klog # <<>>

\* C6: KeyValueMap is case-sensitive: get(k) returns the value of the most
\* recent insert under exactly k, and nothing when no insert used exactly k.
C6_KeyValueMapCaseSensitive ==
    \A k \in ParamKeys \cup UNION {CaseVariants(klog[i].key) : i \in DOMAIN klog} :
        KeyValueMap_get(kv, k) =
            IF \E i \in DOMAIN klog : klog[i].key = k
            THEN Some(klog[LastExact(klog, k)].value)
            ELSE None

C6_Witness ==
    /\ Len(klog) >= 2
    /\ klog[1].key # klog[2].key
    /\ UniCaseEq(klog[1].key, klog[2].key)
    /\ klog[1].value # klog[2].value
    /\ KeyValueMap_get(kv, klog[1].key) = Some(klog[1].value)
    /\ \E k \in CaseVariants(klog[1].key) : KeyValueMap_get(kv, k) = None

C8_JsonOutcome ==
    [][(op'.name = "json" /\ steps' = steps + 1) =>
        /\ ret' = Some(expect)
        /\ msg' = msg
        /\ HttpMessage_json([msg EXCEPT !.body = MessageBody_MultiPart])
             = Err(InvalidData("Empty body"))
      ]_vars

\* json() fails on bytes that are not UTF-8 although Content-Type says JSON.
C8_Witness ==
    /\ op.name = "json"
    /\ ret = Some(BadUtf8)
    /\ HeaderMap_get(msg.headers, CONTENT_TYPE) = Some(APPLICATION_JSON)
    /\ HttpMessage_has_single_body(msg)

(***************************************************************************)
(* Properties of the Request (checked under SpecRequest).                  *)
(***************************************************************************)
IsCall(names) == op'.name \in names /\ steps' = steps + 1

\* C3: params and cookies are independent: a call that inserts a cookie
\* (insert_cookie, cookies_mut().insert) shows in cookies() and leaves
\* params() as it was; a call that inserts a param (insert_param,
\* params_mut().insert) shows in params() and leaves cookies() as it was.
C3_ParamsAndCookiesIndependent ==
    [][/\ IsCall({"insert_cookie", "cookies_mut().insert"}) =>
            /\ Request_params(request') = Request_params(request)
            /\ KeyValueMap_get(Request_cookies(request'), op'.args[1])
                 = Some(op'.args[2])
       /\ IsCall({"insert_param", "params_mut().insert"}) =>
            /\ Request_cookies(request') = Request_cookies(request)
            /\ KeyValueMap_get(Request_params(request'), op'.args[1])
                 = Some(op'.args[2])
      ]_vars

\* C9: Request::new succeeds on every target; target() is the input as
\* given, and url() is present exactly when Url::parse accepts the target,
\* and then is the result of parsing it.
C9_ConstructionKeepsTarget ==
    (steps = 0) =>
        /\ Request_method(request) = ctor.method
        /\ Request_target(request) = ctor.url
        /\ IsSome(Request_url(request)) <=> Url_parse(ctor.url).ok
        /\ IsSome(Request_url(request)) =>
              Request_url(request).val = Url_parse(ctor.url).val
        /\ (ctor.url = <<"h","t","t","p","/","/","e","x","/","u">>) =>
              Request_url(request) = None
        /\ (ctor.url = <<"h","t","t","p",":","/","/","e","x","/","u">>) =>
              /\ IsSome(Request_url(request))
              /\ Url_as_str(Request_url(request).val) = ctor.url

\* A request constructed from a malformed, non-empty target.
C9_Witness ==
    /\ steps = 0
    /\ ctor.url # <<>>
    /\ ~Url_parse(ctor.url).ok
    /\ Request_url(request) = None
    /\ Request_target(request) = ctor.url

\* C10: no call on a Request changes what method(), target() and url()
\* return.
C10_MethodTargetUrlFixed ==
    [][/\ Request_method(request') = Request_method(request)
       /\ Request_target(request') = Request_target(request)
       /\ Request_url(request') = Request_url(request)
      ]_vars

C10_Witness ==
    /\ steps >= 2
    /\ op.name = "set_json"
    /\ Request_params(request) # KeyValueMap_new
    /\ Request_method(request) = ctor.method
    /\ Request_target(request) = ctor.url
    /\ IsSome(Request_url(request))

\* C12: each of the nine method-named constructors returns a Request whose
\* method() is the HttpMethod it is named after, and that is otherwise what
\* Request::new gives for that method and target: the same target and url,
\* no headers, no params, no cookies and no body.
C12_NamedConstructors ==
    (steps = 0 /\ ctor.by # "new") =>
        /\ Request_method(request) = MethodNamed[ctor.by]
        /\ request = Request_new(MethodNamed[ctor.by], ctor.url)
        /\ Request_target(request) = ctor.url
        /\ IsSome(Request_url(request)) <=> Url_parse(ctor.url).ok
        /\ HeaderMap_iter(HttpMessage_headers(Request_deref(request))) = {<<>>}
        /\ KeyValueMap_iter(Request_params(request)) = {<<>>}
        /\ KeyValueMap_iter(Request_cookies(request)) = {<<>>}
        /\ HttpMessage_body(Request_deref(request)) = None
        /\ ~HttpMessage_has_single_body(Request_deref(request))
        /\ ~HttpMessage_has_multipart_body(Request_deref(request))

\* A request just built by Request::put from a well-formed target.
C12_Witness ==
    /\ steps = 0
    /\ ctor.by = "put"
    /\ Request_method(request) = "PUT"
    /\ IsSome(Request_url(request))

(***************************************************************************)
(* The body of a message (checked under SpecMessage).                      *)
(***************************************************************************)
\* The message with its body replaced by a body of the given variant.
WithBody(self, body) == [self EXCEPT !.body = body]

\* C14: set_body(data) makes the body Single(data) whatever body it finds
\* (None, Single or MultiPart): body() then returns exactly data, and the
\* headers are as before; after set_json body() returns the bytes of the
\* text set_json wrote; and body() returns a buffer exactly when
\* has_single_body() is true.
C14_SetBodyReplaces ==
    [][/\ op'.name = "set_body" =>
             /\ HttpMessage_body(msg') = Some(op'.data)
             /\ HttpMessage_headers(msg') = HttpMessage_headers(msg)
             /\ \A found \in {MessageBody_None, MessageBody_MultiPart, msg.body} :
                    /\ HttpMessage_body(HttpMessage_set_body(WithBody(msg, found), op'.data))
                          = Some(op'.data)
                    /\ HttpMessage_headers(HttpMessage_set_body(WithBody(msg, found), op'.data))
                          = HttpMessage_headers(msg)
       /\ op'.name = "set_json" =>
             HttpMessage_body(msg') = Some(into_bytes(JsonValue_pretty(op'.data, 4)))
       /\ \A b \in {MessageBody_None, MessageBody_MultiPart, msg'.body} :
             IsSome(HttpMessage_body(WithBody(msg', b)))
                <=> HttpMessage_has_single_body(WithBody(msg', b))
      ]_vars

\* set_body called on a message whose body was Single with another,
\* non-empty buffer.
C14_Witness ==
    /\ op.name = "set_body"
    /\ is_single(op.found)
    /\ op.found.data # <<>>
    /\ op.found.data # op.data
    /\ op.data # <<>>
    /\ HttpMessage_body(msg) = Some(op.data)

(***************************************************************************)
(* The body variant of a Request's message (checked under SpecRequest).    *)
(***************************************************************************)
\* What a step may do to the body variant of a message.
BodyMoves(before, after) ==
    /\ ~HttpMessage_has_multipart_body(after)
    /\ HttpMessage_has_single_body(before) => HttpMessage_has_single_body(after)
    /\ HttpMessage_has_single_body(after) \/ HttpMessage_body(after) = None

\* C15: a new Request (and a new Response, and a new HttpMessage) has no
\* body, neither Single nor MultiPart; no call makes the body MultiPart, and
\* no call takes a Single body away.
C15_BodyNoneThenSingle ==
    [][/\ steps = 0 =>
             /\ is_none(Request_deref(request).body)
             /\ is_none(Response_deref(response).body)
             /\ is_none(msg.body)
       /\ BodyMoves(Request_deref(request), Request_deref(request'))
       /\ BodyMoves(Response_deref(response), Response_deref(response'))
       /\ BodyMoves(msg, msg')
      ]_vars

\* set_body called on a request after set_json: the body was Single and is
\* Single, with the new buffer.
C15_Witness ==
    /\ op.name = "set_body"
    /\ HeaderMap_get(HttpMessage_headers(Request_deref(request)), CONTENT_TYPE)
          = Some(APPLICATION_JSON)
    /\ HttpMessage_has_single_body(Request_deref(request))
    /\ HttpMessage_body(Request_deref(request)) = Some(op.args[1])

(***************************************************************************)
(* The HeaderMap invariant (checked under SpecMaps).                       *)
(***************************************************************************)
\* No pass of iter() over a HeaderMap yields two entries whose keys are equal
\* up to case.
IterKeysDistinct(self) ==
    \A s \in HeaderMap_iter(self) :
        \A i, j \in DOMAIN s : i # j => ~UniCaseEq(s[i][1], s[j][1])

\* The keys hm has been given: by the conversion that built it, if any, and
\* by the insert calls since.
GivenKeys ==
    {hlog[i].key : i \in DOMAIN hlog}
        \cup (IF hm_src.kind = "new"
              THEN {}
              ELSE {hm_src.value[i][1] : i \in DOMAIN hm_src.value})

\* C13: in every state reached by HeaderMap inserts and conversions the map
\* holds at most one entry per case-insensitive key: a pass of iter() never
\* yields two keys equal up to case, and it yields exactly one entry for
\* every key the map has been given and no other entry.  The same holds of
\* the headers of a message, a request and a response.
C13_OneEntryPerFoldedKey ==
    /\ IterKeysDistinct(hm)
    /\ \A s \in HeaderMap_iter(hm) :
          /\ \A k \in GivenKeys :
                Cardinality({i \in DOMAIN s : UniCaseEq(s[i][1], k)}) = 1
          /\ \A i \in DOMAIN s : \E k \in GivenKeys : UniCaseEq(s[i][1], k)
    /\ IterKeysDistinct(HttpMessage_headers(msg))
    /\ IterKeysDistinct(HttpMessage_headers(Request_deref(request)))
    /\ IterKeysDistinct(HttpMessage_headers(Response_deref(response)))

\* Three keys given, two of them equal up to case only: iter() yields two
\* entries.
C13_Witness ==
    /\ Cardinality(GivenKeys) = 3
    /\ \E k1, k2 \in GivenKeys : k1 # k2 /\ UniCaseEq(k1, k2)
    /\ \A s \in HeaderMap_iter(hm) : Len(s) = 2

(***************************************************************************)
(* Properties of the Response (checked under SpecResponse).                *)
(***************************************************************************)
\* The arguments of the calls of a log that bear one of the given names, in
\* call order.
ArgsOf(log, names) ==
    LET Named(c) == c.name \in names
        calls == SelectSeq(log, Named)
    IN  [i \in 1..Len(calls) |-> calls[i].args[1]]

\* C11: Response.insert_cookie is append-only, without dedup or case folding:
\* after every step cookies() is exactly the sequence of the cookies passed to
\* insert_cookie, in call order, one entry per call; each insert_cookie call
\* makes cookies() one longer, puts its cookie last and leaves every earlier
\* entry as it was.
C11_CookiesAppendOnly ==
    [][/\ Response_cookies(response') = ArgsOf(rlog', {"insert_cookie"})
       /\ op'.name = "insert_cookie" =>
             /\ Len(Response_cookies(response')) = Len(Response_cookies(response)) + 1
             /\ Response_cookies(response')[Len(Response_cookies(response'))] = op'.args[1]
             /\ \A i \in 1..Len(Response_cookies(response)) :
                    Response_cookies(response')[i] = Response_cookies(response)[i]]_vars

\* Three insert_cookie calls: a name, the same name in another casing, and
\* the first name again; all three are in cookies().
C11_Witness ==
    /\ op.name = "insert_cookie"
    /\ Len(Response_cookies(response)) = 3
    /\ Response_cookies(response)[1].name = Response_cookies(response)[3].name
    /\ Response_cookies(response)[1].name # Response_cookies(response)[2].name
    /\ UniCaseEq(Response_cookies(response)[1].name, Response_cookies(response)[2].name)

\* What a call on the auth lists leaves alone: the cookies, the status code,
\* the headers and the body.
AuthFrame ==
    /\ Response_cookies(response') = Response_cookies(response)
    /\ Response_status_code(response') = Response_status_code(response)
    /\ HttpMessage_headers(Response_deref(response'))
          = HttpMessage_headers(Response_deref(response))
    /\ Response_deref(response').body = Response_deref(response).body

\* C16: insert_auth_headers appends its string to the end of auth_headers()
\* and insert_proxy_auth_header to the end of proxy_auth_headers(); neither
\* changes the other list, the cookies, the status code, the headers or the
\* body.  After every step each list is the sequence of the strings given to
\* it, in call order (by its insert call or by a push through its _mut
\* reference; with insert calls only, the strings passed to the insert call).
C16_AuthListsAppendOnly ==
    [][/\ op'.name = "insert_auth_headers" =>
             /\ Response_auth_headers(response')
                   = Append(Response_auth_headers(response), op'.args[1])
             /\ Response_proxy_auth_headers(response')
                   = Response_proxy_auth_headers(response)
             /\ AuthFrame
       /\ op'.name = "insert_proxy_auth_header" =>
             /\ Response_proxy_auth_headers(response')
                   = Append(Response_proxy_auth_headers(response), op'.args[1])
             /\ Response_auth_headers(response')
                   = Response_auth_headers(response)
             /\ AuthFrame
       /\ Response_auth_headers(response')
             = ArgsOf(rlog', {"insert_auth_headers", "auth_headers_mut().push"})
       /\ Response_proxy_auth_headers(response')
             = ArgsOf(rlog', {"insert_proxy_auth_header",
                              "proxy_auth_headers_mut().push"})
      ]_vars

\* insert_auth_headers, insert_proxy_auth_header, insert_auth_headers, with
\* two different auth strings.
C16_Witness ==
    /\ Len(rlog) = 3
    /\ rlog[1].name = "insert_auth_headers"
    /\ rlog[2].name = "insert_proxy_auth_header"
    /\ rlog[3].name = "insert_auth_headers"
    /\ rlog[1].args # rlog[3].args
    /\ Response_auth_headers(response) = <<rlog[1].args[1], rlog[3].args[1]>>
    /\ Response_proxy_auth_headers(response) = <<rlog[2].args[1]>>

====
